---- MODULE Spec2Model ----
(***************************************************************************)
(* Todo backend with a chat layer (FastAPI + SQLModel on SQLite).          *)
(*                                                                         *)
(* The state is the four tables of src/app/models.py plus the requests in  *)
(* flight.  Every handler of src/app/routes is an action (or, where the    *)
(* handler reads or commits, and later commits again, one action per       *)
(* commit: requests served by several workers on the one database file     *)
(* interleave there, and a chat turn also suspends while it awaits the     *)
(* completion service).  Timestamps (created_at / updated_at) are written  *)
(* by the handlers but never read by them; they are left out of the        *)
(* records.  SQLite does not enforce the foreign keys (no PRAGMA is set),  *)
(* so a row's user_id need not be the id of a stored user.                 *)
(*                                                                         *)
(* Python values that may be None are modelled as sequences of length at   *)
(* most one: None is << >> and a value v is << v >>.                       *)
(***************************************************************************)
EXTENDS Integers, Sequences, FiniteSets, TLC

(***************************************************************************)
(* Bounds of the model.                                                    *)
(***************************************************************************)
MaxTaskId == 2
MaxSignups == 3
MaxChats == 2

(***************************************************************************)
(* Optional values.                                                        *)
(***************************************************************************)
None == << >>
Some(v) == << v >>
IsNone(x) == x = << >>
Val(x) == x[1]

(***************************************************************************)
(* Strings.  Python's str.lower(), the `in` substring test and int().      *)
(***************************************************************************)
UpperChars == "ABCDEFGHIJKLMNOPQRSTUVWXYZ"
LowerChars == "abcdefghijklmnopqrstuvwxyz"
DigitChars == "0123456789"

CharAt(s, i) == SubSeq(s, i, i)

IndexIn(alphabet, c) ==
    IF \E i \in 1..Len(alphabet) : CharAt(alphabet, i) = c
    THEN CHOOSE i \in 1..Len(alphabet) : CharAt(alphabet, i) = c
    ELSE 0

LowerChar(c) ==
    IF IndexIn(UpperChars, c) = 0 THEN c
    ELSE CharAt(LowerChars, IndexIn(UpperChars, c))

RECURSIVE Lower(_)
Lower(s) ==
    IF Len(s) = 0 THEN s
    ELSE LowerChar(CharAt(s, 1)) \o Lower(SubSeq(s, 2, Len(s)))

\* word in text
Contains(text, word) ==
    \E i \in 1..(Len(text) - Len(word) + 1) :
        SubSeq(text, i, i + Len(word) - 1) = word

\* any(word in text for word in words)
ContainsAny(text, words) == \E w \in words : Contains(text, w)

IsDigit(c) == IndexIn(DigitChars, c) # 0

RECURSIVE DigitsValue(_)
DigitsValue(s) ==
    IF Len(s) = 0 THEN 0
    ELSE 10 * DigitsValue(SubSeq(s, 1, Len(s) - 1))
         + (IndexIn(DigitChars, CharAt(s, Len(s))) - 1)

RECURSIVE Strip(_)
Strip(s) ==
    IF Len(s) > 0 /\ CharAt(s, 1) = " " THEN Strip(SubSeq(s, 2, Len(s)))
    ELSE IF Len(s) > 0 /\ CharAt(s, Len(s)) = " " THEN Strip(SubSeq(s, 1, Len(s) - 1))
    ELSE s

AllDigits(s) == Len(s) > 0 /\ \A i \in 1..Len(s) : IsDigit(CharAt(s, i))

\* int(user_id): Some(n), or None where Python raises ValueError.
ParseInt(str) ==
    LET s == Strip(str)
        signed == Len(s) > 0 /\ CharAt(s, 1) \in {"-", "+"}
        body == IF signed THEN SubSeq(s, 2, Len(s)) ELSE s
    IN  IF ~AllDigits(body) THEN None
        ELSE IF signed /\ CharAt(s, 1) = "-" THEN Some(0 - DigitsValue(body))
        ELSE Some(DigitsValue(body))

(***************************************************************************)
(* Inputs the requests are drawn from.                                     *)
(***************************************************************************)
UserIdStrs == {"1", "2", "x"}
TaskIds == 1..(MaxTaskId + 1)
AddTitles == {"a"}
UpdTitles == {None, Some("b")}
Descriptions == {None}
Statuses == {"all", "pending", "completed"}
Emails == {"a@x.io", "A@x.io"}

\* int(user_id), tabulated once over the user ids the requests carry.
UserInt == [u \in UserIdStrs |-> ParseInt(u)]

int(user_id) == UserInt[user_id]

VARIABLES
    users,          \* table users: sequence of rows, in id order
    tasks,          \* table tasks: function from id to row
    conversations,  \* table conversations: sequence of rows, in id order
    messages,       \* table messages: sequence of rows, in id order
    signups,        \* signup requests, in flight or answered
    chats,          \* chat requests, in flight or answered
    last,           \* the answer of the latest task-tool request
    apiKey          \* whether OPENAI_API_KEY is set in the environment

vars == <<users, tasks, conversations, messages, signups, chats, last, apiKey>>

authVars == <<users, signups>>
chatVars == <<conversations, messages, chats>>
taskVars == <<tasks, last>>

(***************************************************************************)
(* Task tools, src/app/routes/tasks.py.  No handler awaits between its     *)
(* read and its commit, so each is one step.                               *)
(***************************************************************************)
Max(S) == CHOOSE m \in S : \A x \in S : x <= m

\* SQLite rowid of a new row: one more than the largest rowid in the table.
NextTaskId == IF DOMAIN tasks = {} THEN 1 ELSE Max(DOMAIN tasks) + 1

TaskRow(uid, title, description) ==
    [user_id |-> uid, title |-> title, description |-> description,
     completed |-> FALSE]

Answer(op, user_id, task_id, status, out) ==
    [op |-> op, user_id |-> user_id, task_id |-> task_id,
     status |-> status, out |-> out]

TaskSummary(id) ==
    [id |-> id, title |-> tasks[id].title,
     description |-> tasks[id].description, completed |-> tasks[id].completed]

RECURSIVE InIdOrder(_)
InIdOrder(S) ==
    IF S = {} THEN << >>
    ELSE LET m == Max(S) IN Append(InIdOrder(S \ {m}), m)

\* The ids selected by list_tasks' query.
ListIds(uid, status) ==
    {id \in DOMAIN tasks :
        /\ tasks[id].user_id = uid
        /\ (status = "pending" => tasks[id].completed = FALSE)
        /\ (status = "completed" => tasks[id].completed = TRUE)}

ListResult(uid, status) ==
    LET ids == InIdOrder(ListIds(uid, status))
    IN  [i \in 1..Len(ids) |-> TaskSummary(ids[i])]

add_task(user_id, title, description) ==
    /\ NextTaskId <= MaxTaskId
    /\ IF IsNone(int(user_id))
       THEN /\ last' = Answer("add_task", user_id, 0, 500, << >>)
            /\ UNCHANGED tasks
       ELSE /\ tasks' = [id \in DOMAIN tasks \cup {NextTaskId} |->
                           IF id = NextTaskId
                           THEN TaskRow(Val(int(user_id)), title, description)
                           ELSE tasks[id]]
            /\ last' = Answer("add_task", user_id, NextTaskId, 200, <<title>>)
    /\ UNCHANGED <<authVars, chatVars, apiKey>>

list_tasks(user_id, status) ==
    /\ IF IsNone(int(user_id))
       THEN last' = Answer("list_tasks", user_id, 0, 500, << >>)
       ELSE last' = Answer("list_tasks", user_id, 0, 200,
                           ListResult(Val(int(user_id)), status))
    /\ UNCHANGED <<tasks, authVars, chatVars, apiKey>>

\* OwnershipStatus without the comparison of task.user_id with the caller.
OwnershipStatusNoOwner(user_id, task_id) ==
    IF task_id \notin DOMAIN tasks THEN 404
    ELSE IF IsNone(int(user_id)) THEN 500
    ELSE 200

\* The checks the three mutating tools share: 404, then int(user_id), then 403.
OwnershipStatus(user_id, task_id) ==
    IF task_id \notin DOMAIN tasks THEN 404
    ELSE IF IsNone(int(user_id)) THEN 500
    ELSE IF tasks[task_id].user_id # Val(int(user_id)) THEN 403
    ELSE 200

\* complete_task without `task.completed = True`.
complete_task_no_flag(user_id, task_id) ==
    LET st == IF task_id \notin DOMAIN tasks THEN 404
              ELSE IF IsNone(int(user_id)) THEN 500
              ELSE IF tasks[task_id].user_id # Val(int(user_id)) THEN 403
              ELSE 200
    IN
    /\ last' = [op |-> "complete_task", user_id |-> user_id, task_id |-> task_id,
                status |-> st,
                out |-> IF st = 200 THEN <<tasks[task_id].title>> ELSE << >>]
    /\ UNCHANGED <<tasks, authVars, chatVars, apiKey>>

complete_task(user_id, task_id) ==
    LET st == OwnershipStatus(user_id, task_id) IN
    /\ IF st # 200
       THEN /\ last' = Answer("complete_task", user_id, task_id, st, << >>)
            /\ UNCHANGED tasks
       ELSE /\ tasks' = [tasks EXCEPT ![task_id].completed = TRUE]
            /\ last' = Answer("complete_task", user_id, task_id, 200,
                              <<tasks[task_id].title>>)
    /\ UNCHANGED <<authVars, chatVars, apiKey>>

delete_task(user_id, task_id) ==
    LET st == OwnershipStatus(user_id, task_id) IN
    /\ IF st # 200
       THEN /\ last' = Answer("delete_task", user_id, task_id, st, << >>)
            /\ UNCHANGED tasks
       ELSE /\ tasks' = [id \in DOMAIN tasks \ {task_id} |-> tasks[id]]
            /\ last' = Answer("delete_task", user_id, task_id, 200,
                              <<tasks[task_id].title>>)
    /\ UNCHANGED <<authVars, chatVars, apiKey>>

update_task(user_id, task_id, title, description) ==
    LET st == OwnershipStatus(user_id, task_id)
        newTitle == IF IsNone(title) THEN tasks[task_id].title ELSE Val(title)
        newDescription ==
            IF IsNone(description) THEN tasks[task_id].description ELSE description
    IN
    /\ IF st # 200
       THEN /\ last' = Answer("update_task", user_id, task_id, st, << >>)
            /\ UNCHANGED tasks
       ELSE /\ tasks' = [tasks EXCEPT ![task_id].title = newTitle,
                                      ![task_id].description = newDescription]
            /\ last' = Answer("update_task", user_id, task_id, 200, <<newTitle>>)
    /\ UNCHANGED <<authVars, chatVars, apiKey>>

AddTask == \E u \in UserIdStrs, t \in AddTitles, d \in Descriptions : add_task(u, t, d)
ListTasks == \E u \in UserIdStrs, s \in Statuses : list_tasks(u, s)
CompleteTask == \E u \in UserIdStrs, t \in TaskIds : complete_task(u, t)
DeleteTask == \E u \in UserIdStrs, t \in TaskIds : delete_task(u, t)
UpdateTask ==
    \E u \in UserIdStrs, t \in TaskIds, ti \in UpdTitles, d \in Descriptions :
        update_task(u, t, ti, d)

Init ==
    /\ users = << >>
    /\ tasks = << >>
    /\ conversations = << >>
    /\ messages = << >>
    /\ signups = << >>
    /\ chats = << >>
    /\ last = Answer("none", "", 0, 0, << >>)
    /\ apiKey \in BOOLEAN

(***************************************************************************)
(* Signup, src/app/routes/auth.py.  The handler reads (the existence       *)
(* check) and later commits; requests served by different workers on the   *)
(* same database file interleave between the two.  The users table has a   *)
(* unique index on email (models.py), which the commit enforces.  A row's  *)
(* name and hashed_password are written here and read only by login.       *)
(***************************************************************************)
\* The existence check with emails compared without regard to case.
EmailRegisteredNoCase(email) ==
    \E i \in 1..Len(users) : Lower(users[i].email) = Lower(email)

EmailRegistered(email) == \E i \in 1..Len(users) : users[i].email = email

\* select(User).where(User.email == request.email).first()
SignupCheck(email) ==
    /\ Len(signups) < MaxSignups
    /\ signups' = Append(signups,
          IF EmailRegistered(email)
          THEN [email |-> email, pc |-> "done", status |-> 400, id |-> 0]
          ELSE [email |-> email, pc |-> "commit", status |-> 0, id |-> 0])
    /\ UNCHANGED <<users, taskVars, chatVars, apiKey>>

\* A users table without the unique index.
NoUniqueIndex(email) == FALSE

\* The unique index of users.email: the INSERT is refused when a row holds it.
UniqueViolation(email) == \E i \in 1..Len(users) : users[i].email = email

\* db.add(user); db.commit(); db.refresh(user); the token; the response.
\* An IntegrityError is not caught by the handler: the answer is a 500.
SignupCommit(r) ==
    /\ signups[r].pc = "commit"
    /\ IF UniqueViolation(signups[r].email)
       THEN /\ signups' = [signups EXCEPT ![r].pc = "done", ![r].status = 500]
            /\ UNCHANGED users
       ELSE /\ users' = Append(users, [id |-> Len(users) + 1,
                                       email |-> signups[r].email])
            /\ signups' = [signups EXCEPT ![r].pc = "done", ![r].status = 200,
                                          ![r].id = Len(users) + 1]
    /\ UNCHANGED <<taskVars, chatVars, apiKey>>

Signup == \E e \in Emails : SignupCheck(e)
SignupFinish == \E r \in 1..Len(signups) : SignupCommit(r)

NextAuth == Signup \/ SignupFinish

SpecAuth == Init /\ [][NextAuth]_vars

(***************************************************************************)
(* Chat, src/app/routes/chat.py.                                           *)
(***************************************************************************)
HelpText == "I'm your AI task assistant! Just ask me in natural language!"

ToolCall(name, parameters) == [name |-> name, parameters |-> parameters]

Reply(text, tool_calls) == [text |-> text, tool_calls |-> tool_calls]

\* get_fallback_response matching on the text as typed, not lowercased.
get_fallback_response_no_lower(user_message, user_id) ==
    IF ContainsAny(user_message, {"add", "create", "remember"})
    THEN Reply(Some("I've added that task for you! Is there anything else?"),
               <<ToolCall("add_task",
                          [title |-> "New task", description |-> "Created from chat"])>>)
    ELSE IF ContainsAny(user_message, {"list", "show", "what", "pending"})
    THEN Reply(Some("Here are your tasks: You have 1 pending task."),
               <<ToolCall("list_tasks", [status |-> "all"])>>)
    ELSE IF ContainsAny(user_message, {"complete", "done", "finish"})
    THEN Reply(Some("Great job! I've marked that task as complete!"),
               <<ToolCall("complete_task", [task_id |-> 1])>>)
    ELSE IF ContainsAny(user_message, {"delete", "remove"})
    THEN Reply(Some("I've deleted that task for you."),
               <<ToolCall("delete_task", [task_id |-> 1])>>)
    ELSE Reply(Some(HelpText), << >>)

\* The keyword classifier.  The canned texts are the source's, without their
\* bullet lists and emoji.
get_fallback_response(user_message, user_id) ==
    LET message_lower == Lower(user_message) IN
    IF ContainsAny(message_lower, {"add", "create", "remember"})
    THEN Reply(Some("I've added that task for you! Is there anything else?"),
               <<ToolCall("add_task",
                          [title |-> "New task", description |-> "Created from chat"])>>)
    ELSE IF ContainsAny(message_lower, {"list", "show", "what", "pending"})
    THEN Reply(Some("Here are your tasks: You have 1 pending task."),
               <<ToolCall("list_tasks", [status |-> "all"])>>)
    ELSE IF ContainsAny(message_lower, {"complete", "done", "finish"})
    THEN Reply(Some("Great job! I've marked that task as complete!"),
               <<ToolCall("complete_task", [task_id |-> 1])>>)
    ELSE IF ContainsAny(message_lower, {"delete", "remove"})
    THEN Reply(Some("I've deleted that task for you."),
               <<ToolCall("delete_task", [task_id |-> 1])>>)
    ELSE Reply(Some(HelpText), << >>)

\* f"Executed {tool_call['name']} successfully!": the tool itself is not called.
execute_tool(tool_call, user_id) ==
    "Executed " \o tool_call.name \o " successfully!"

(***************************************************************************)
(* What the completion service can answer.  kind "raise": the POST raises  *)
(* (unreachable, timeout).  "not_json": response.json() raises.            *)
(* "no_choices": a JSON body without choices[0].message (an error body).   *)
(* "message": a body with choices[0].message, whose content key may be     *)
(* absent, null or a text, and whose tool_calls may be absent (<< >>) or a *)
(* list; a call's arguments are a text that Python's eval() either         *)
(* evaluates (valid, to value) or raises on.                               *)
(***************************************************************************)
Failure(kind) ==
    [kind |-> kind, has_content |-> FALSE, content |-> None, tool_calls |-> << >>]

Body(has_content, content, tool_calls) ==
    [kind |-> "message", has_content |-> has_content, content |-> content,
     tool_calls |-> tool_calls]

Requested(name, valid, value) ==
    [name |-> name, arguments |-> [valid |-> valid, value |-> value]]

GoodAdd == Requested("add_task", TRUE, [title |-> "milk"])
GoodList == Requested("list_tasks", TRUE, [status |-> "all"])
BadAdd == Requested("add_task", FALSE, [title |-> "milk"])

Upstream ==
    { Failure("raise"), Failure("not_json"), Failure("no_choices"),
      Body(FALSE, None, << >>),
      Body(TRUE, None, << >>),
      Body(TRUE, Some("Sure!"), << >>),
      Body(TRUE, None, <<GoodAdd>>),
      Body(TRUE, None, <<GoodList, GoodAdd>>),
      Body(TRUE, None, <<GoodAdd, BadAdd>>) }

\* Whether the try block of call_ai_agent raises on this answer.
Raises(answer) ==
    \/ answer.kind # "message"
    \/ /\ answer.tool_calls # << >>
       /\ \E i \in 1..Len(answer.tool_calls) :
              ~answer.tool_calls[i].arguments.valid
    \/ /\ answer.tool_calls = << >>
       /\ ~answer.has_content

\* The list built by the loop over data[...]["tool_calls"].
Collected(answer) ==
    [i \in 1..Len(answer.tool_calls) |->
        ToolCall(answer.tool_calls[i].name, answer.tool_calls[i].arguments.value)]

\* The body of call_ai_agent once the key is known to be set.
external_response(answer, user_message, user_id) ==
    IF Raises(answer) THEN get_fallback_response(user_message, user_id)
    ELSE IF answer.tool_calls # << >>
    THEN Reply(Some(execute_tool(Collected(answer)[1], user_id)), Collected(answer))
    ELSE Reply(answer.content, << >>)

call_ai_agent(key, answer, user_message, user_id) ==
    IF ~key THEN get_fallback_response(user_message, user_id)
    ELSE external_response(answer, user_message, user_id)

ChatTexts == {"add milk", "hi"}
ConversationIds == {None} \cup {Some(i) : i \in (0 - 1)..MaxChats}

NoAnswer == Failure("none")

ChatRequest(user_id, conversation_id, message) ==
    [user_id |-> user_id, conversation_id |-> conversation_id,
     message |-> message, pc |-> "resolve", cid |-> 0, status |-> 0,
     pending |-> << >>, log0 |-> {}, user_message |-> 0, assistant_message |-> 0,
     answer |-> NoAnswer, ai_response |-> None, tool_calls |-> << >>]

\* A Message built with role "user" whatever the role asked for.
MessageRowAlwaysUser(uid, cid, role, content) ==
    [user_id |-> uid, conversation_id |-> cid, role |-> "user", content |-> content]

MessageRow(uid, cid, role, content) ==
    [user_id |-> uid, conversation_id |-> cid, role |-> role, content |-> content]

\* The ids of the messages of a conversation.
LogOf(table, cid) == {i \in 1..Len(table) : table[i].conversation_id = cid}

Log(cid) == LogOf(messages, cid)

\* `not conversation_id`: None and 0 are both falsy.
Falsy(conversation_id) == IsNone(conversation_id) \/ Val(conversation_id) = 0

\* db.get(Conversation, conversation_id)
ConversationExists(id) == id \in 1..Len(conversations)

\* Step 1 of chat: get or create the conversation.
ChatResolve(user_id, conversation_id, message) ==
    LET req == ChatRequest(user_id, conversation_id, message)
        new == Len(conversations) + 1
    IN
    /\ Len(chats) < MaxChats
    /\ IF Falsy(conversation_id)
       THEN IF IsNone(int(user_id))
            THEN /\ chats' = Append(chats, [req EXCEPT !.pc = "done", !.status = 500])
                 /\ UNCHANGED conversations
            ELSE /\ conversations' =
                        Append(conversations, [user_id |-> Val(int(user_id))])
                 /\ chats' = Append(chats, [req EXCEPT !.pc = "store_user",
                                                      !.cid = new, !.log0 = Log(new)])
       ELSE IF ~ConversationExists(Val(conversation_id))
            THEN /\ chats' = Append(chats, [req EXCEPT !.pc = "done", !.status = 404])
                 /\ UNCHANGED conversations
            ELSE /\ chats' = Append(chats,
                        [req EXCEPT !.pc = "store_user", !.cid = Val(conversation_id),
                                    !.log0 = Log(Val(conversation_id))])
                 /\ UNCHANGED conversations
    /\ UNCHANGED <<messages, authVars, taskVars, apiKey>>

\* db.commit(): the session's pending rows are inserted, in order.  A commit
\* fails as a whole when a row has no content (messages.content is NOT NULL).
CommitFails(rows) == \E i \in 1..Len(rows) : IsNone(rows[i].content)

Stored(rows) == [i \in 1..Len(rows) |-> [rows[i] EXCEPT !.content = Val(rows[i].content)]]

\* Step 2 of chat without its db.commit(): the row stays pending in the session.
store_user_message_deferred(r) ==
    LET c == chats[r]
        row == [user_id |-> Val(int(c.user_id)), conversation_id |-> c.cid,
                role |-> "user", content |-> Some(c.message)]
    IN
    IF IsNone(int(c.user_id))
    THEN /\ chats' = [chats EXCEPT ![r].pc = "done", ![r].status = 500,
                                   ![r].pending = << >>]
         /\ UNCHANGED messages
    ELSE /\ chats' = [chats EXCEPT ![r].pc = "agent",
                                   ![r].pending = c.pending \o <<row>>]
         /\ UNCHANGED messages

\* Step 2 of chat: db.add(user_message); db.commit().
store_user_message(r) ==
    LET c == chats[r]
        row == MessageRow(Val(int(c.user_id)), c.cid, "user", Some(c.message))
    IN
    IF IsNone(int(c.user_id))
    THEN /\ chats' = [chats EXCEPT ![r].pc = "done", ![r].status = 500,
                                   ![r].pending = << >>]
         /\ UNCHANGED messages
    ELSE /\ messages' = messages \o Stored(c.pending \o <<row>>)
         /\ chats' = [chats EXCEPT ![r].pc = "agent", ![r].pending = << >>,
                                   ![r].user_message = Len(messages) + 1]

ChatStoreUser(r) ==
    /\ chats[r].pc = "store_user"
    /\ store_user_message(r)
    /\ UNCHANGED <<conversations, authVars, taskVars, apiKey>>

\* The task table after the tool call is applied to it for the caller, as
\* the tools of the task router would.
Applied(tool_call, uid) ==
    IF tool_call.name = "add_task"
    THEN IF NextTaskId <= MaxTaskId
         THEN [id \in DOMAIN tasks \cup {NextTaskId} |->
                  IF id \in DOMAIN tasks THEN tasks[id]
                  ELSE TaskRow(uid, tool_call.parameters.title, None)]
         ELSE tasks
    ELSE IF tool_call.name \in {"complete_task", "delete_task"}
    THEN LET t == tool_call.parameters.task_id IN
         IF t \notin DOMAIN tasks \/ tasks[t].user_id # uid THEN tasks
         ELSE IF tool_call.name = "complete_task"
         THEN [tasks EXCEPT ![t].completed = TRUE]
         ELSE [id \in DOMAIN tasks \ {t} |-> tasks[id]]
    ELSE tasks

\* Step 3 of chat with an execute_tool that calls the task tools: the first
\* tool call of the answer takes effect on the task table.
ChatCallAgentExecuting(r, answer) ==
    LET c == chats[r]
        reply == call_ai_agent(apiKey, answer, c.message, c.user_id)
    IN
    /\ c.pc = "agent"
    /\ IF apiKey THEN answer \in Upstream ELSE answer = NoAnswer
    /\ chats' = [chats EXCEPT ![r].pc = "store_assistant",
                              ![r].answer = answer,
                              ![r].ai_response = reply.text,
                              ![r].tool_calls = reply.tool_calls]
    /\ tasks' = IF reply.tool_calls = << >> THEN tasks
                ELSE Applied(reply.tool_calls[1], Val(int(c.user_id)))
    /\ UNCHANGED <<conversations, messages, authVars, last, apiKey>>

\* Step 3 of chat: await call_ai_agent(request.message, user_id).
ChatCallAgent(r, answer) ==
    LET c == chats[r]
        reply == call_ai_agent(apiKey, answer, c.message, c.user_id)
    IN
    /\ c.pc = "agent"
    /\ IF apiKey THEN answer \in Upstream ELSE answer = NoAnswer
    /\ chats' = [chats EXCEPT ![r].pc = "store_assistant",
                              ![r].answer = answer,
                              ![r].ai_response = reply.text,
                              ![r].tool_calls = reply.tool_calls]
    /\ UNCHANGED <<conversations, messages, authVars, taskVars, apiKey>>

\* Step 4 of chat: db.add(assistant_message); db.commit(); the response.
\* On an exception: db.rollback() and a 500.
ChatStoreAssistant(r) ==
    LET c == chats[r]
        row == MessageRow(Val(int(c.user_id)), c.cid, "assistant", c.ai_response)
        rows == c.pending \o <<row>>
    IN
    /\ c.pc = "store_assistant"
    /\ IF CommitFails(rows)
       THEN /\ chats' = [chats EXCEPT ![r].pc = "done", ![r].status = 500,
                                      ![r].pending = << >>]
            /\ UNCHANGED messages
       ELSE /\ messages' = messages \o Stored(rows)
            /\ chats' = [chats EXCEPT ![r].pc = "done", ![r].status = 200,
                                      ![r].pending = << >>,
                                      ![r].assistant_message = Len(messages) + Len(rows)]
    /\ UNCHANGED <<conversations, authVars, taskVars, apiKey>>

Chat ==
    \E u \in UserIdStrs, c \in ConversationIds, m \in ChatTexts : ChatResolve(u, c, m)
StoreUser == \E r \in 1..Len(chats) : ChatStoreUser(r)
CallAgent ==
    \E r \in 1..Len(chats), a \in Upstream \cup {NoAnswer} : ChatCallAgent(r, a)
StoreAssistant == \E r \in 1..Len(chats) : ChatStoreAssistant(r)

NextChat == Chat \/ StoreUser \/ CallAgent \/ StoreAssistant

SpecChat == Init /\ [][NextChat]_vars

(***************************************************************************)
(* The fallback strategy alone: no key is set, and the texts cover every   *)
(* keyword group, texts matching several groups, upper case and keywords   *)
(* inside longer words.                                                    *)
(***************************************************************************)
FallbackTexts ==
    {"add buy milk", "ADD", "Remember to list", "what did I add", "address",
     "show tasks", "What is done", "pending delete", "complete the list",
     "I'm DONE", "finish and remove", "undone",
     "Delete 1", "remove it",
     "hello", "", "ad d", "creat"}

\* Without a key the handler never suspends: the turns follow one another.
ChatFallback ==
    /\ \A r \in 1..Len(chats) : chats[r].pc = "done"
    /\ \E u \in {"1", "2"}, m \in FallbackTexts : ChatResolve(u, None, m)

InitFallback == Init /\ ~apiKey

NextFallback == ChatFallback \/ StoreUser \/ CallAgent \/ StoreAssistant

SpecFallback == InitFallback /\ [][NextFallback]_vars

NextTasks == AddTask \/ ListTasks \/ CompleteTask \/ DeleteTask \/ UpdateTask

\* The task tools never read the key.
InitTasks == Init /\ ~apiKey

SpecTasks == InitTasks /\ [][NextTasks]_vars

(***************************************************************************)
(* The three routers of src/app/main.py on the one database: signups, task *)
(* tools and chat turns in any order.  Each router is driven with the      *)
(* inputs that matter to the others: tasks of two users that a tool call   *)
(* of a chat turn could add to or delete, a registered user, and chat      *)
(* texts and a service answer that yield add_task, complete_task and       *)
(* delete_task calls by either strategy.  The requests of one router       *)
(* follow one another; those of different routers interleave.              *)
(***************************************************************************)
AppUsers == {"1", "2"}

AppTexts == {"add milk", "I'm DONE", "Delete 1"}

\* With a key, the service asks for two tool calls.
AppAnswer == Body(TRUE, None, <<GoodList, GoodAdd>>)

AppSignup ==
    /\ \A r \in 1..Len(signups) : signups[r].pc = "done"
    /\ SignupCheck("a@x.io")

AppAddTask == \E u \in AppUsers, t \in AddTitles : add_task(u, t, None)
AppDeleteTask == \E u \in AppUsers, t \in TaskIds : delete_task(u, t)

AppChat ==
    /\ \A r \in 1..Len(chats) : chats[r].pc = "done"
    /\ \E m \in AppTexts : ChatResolve("1", None, m)

AppCallAgent ==
    \E r \in 1..Len(chats), a \in {AppAnswer, NoAnswer} : ChatCallAgent(r, a)

Next ==
    \/ AppSignup \/ SignupFinish
    \/ AppAddTask \/ AppDeleteTask
    \/ AppChat \/ StoreUser \/ AppCallAgent \/ StoreAssistant

Spec == Init /\ [][Next]_vars

(***************************************************************************)
(* Properties of the task tools (SpecTasks).  In every step that changes   *)
(* the state, last' is the answer of the request the step served.          *)
(***************************************************************************)
Owners == {Val(int(u)) : u \in {v \in UserIdStrs : ~IsNone(int(v))}}

MutatingTools == {"complete_task", "delete_task", "update_task"}

Served(op, status) == last'.op = op /\ last'.status = status

\* The caller of the served request is a user id, and the request is one of
\* the three mutating tools.
MutationByUser ==
    /\ last'.op \in MutatingTools
    /\ ~IsNone(int(last'.user_id))

Caller == Val(int(last'.user_id))

\* C1, as stated: complete_task, delete_task and update_task called by u with
\* a task id that u does not own (the task is another user's, or no task has
\* the id) answer 403 and leave every stored task unchanged.
C1_Original ==
    [][ (/\ MutationByUser
         /\ \/ last'.task_id \notin DOMAIN tasks
            \/ tasks[last'.task_id].user_id # Caller)
        => (last'.status = 403 /\ tasks' = tasks) ]_vars

\* C1, amended: called by u with the id of a stored task of another user, the
\* three tools answer 403; with an id no stored task has, they answer 404; in
\* both cases every stored task is unchanged.
C1_Theorem ==
    [][ /\ (/\ MutationByUser
            /\ last'.task_id \in DOMAIN tasks
            /\ tasks[last'.task_id].user_id # Caller)
           => (last'.status = 403 /\ tasks' = tasks)
        /\ (/\ MutationByUser
            /\ last'.task_id \notin DOMAIN tasks)
           => (last'.status = 404 /\ tasks' = tasks) ]_vars

\* A mutating tool was refused for a stored task of another user.
C1_Witness ==
    /\ last.op \in MutatingTools
    /\ last.status = 403
    /\ last.task_id \in DOMAIN tasks
    /\ tasks[last.task_id].user_id # Val(int(last.user_id))

Deleted(t) == Served("delete_task", 200) /\ last'.task_id = t
Completed(t) == Served("complete_task", 200) /\ last'.task_id = t

\* C5, as stated, its last clause: once complete_task(u, t) has succeeded, t is
\* in list_tasks(u, "completed") and not in list_tasks(u, "pending") from then on.
C5_Original ==
    [][ \A u \in Owners, t \in TaskIds :
          t \in ListIds(u, "completed")
          => /\ t \in ListIds(u, "completed")'
             /\ t \notin ListIds(u, "pending")' ]_vars

\* C5, amended: the task add_task(u, ..) returns is in list_tasks(u, "all") and
\* list_tasks(u, "pending"); a listed task stays in "all" until it is deleted,
\* and in "pending" until it is completed or deleted; complete_task(u, t) moves
\* t from "pending" to "completed", where it stays until it is deleted; and an
\* answer of list_tasks for u holds only stored tasks of u.
C5_Theorem ==
    [][ /\ \A u \in Owners :
             LET all0 == ListIds(u, "all")
                 all1 == ListIds(u, "all")'
                 pending0 == ListIds(u, "pending")
                 pending1 == ListIds(u, "pending")'
                 completed0 == ListIds(u, "completed")
                 completed1 == ListIds(u, "completed")'
             IN
             /\ (Served("add_task", 200) /\ Caller = u)
                => (last'.task_id \in all1 /\ last'.task_id \in pending1)
             /\ \A t \in all0 \ {t \in TaskIds : Deleted(t)} : t \in all1
             /\ \A t \in pending0 :
                   (~Deleted(t) /\ ~Completed(t)) => t \in pending1
             /\ \A t \in TaskIds :
                   (Completed(t) /\ Caller = u)
                   => (t \in completed1 /\ t \notin pending1)
             /\ \A t \in completed0 :
                   ~Deleted(t) => (t \in completed1 /\ t \notin pending1)
        /\ Served("list_tasks", 200)
           => \A i \in 1..Len(last'.out) :
                 /\ last'.out[i].id \in DOMAIN tasks
                 /\ tasks[last'.out[i].id].user_id = Caller ]_vars

\* A task was completed by its owner, and another user's task is stored.
C5_Witness ==
    /\ last.op = "complete_task"
    /\ last.status = 200
    /\ tasks[last.task_id].completed
    /\ \E t \in DOMAIN tasks : tasks[t].user_id # tasks[last.task_id].user_id

(***************************************************************************)
(* Properties of signup (SpecAuth).                                        *)
(***************************************************************************)
UsersWith(email) == {i \in 1..Len(users) : users[i].email = email}

\* This step is the arrival (and existence check) of signup request r.
Arrives(r) == Len(signups) = r - 1 /\ Len(signups') = r

\* This step is the commit of signup request r.
Commits(r) ==
    /\ r \in 1..Len(signups)
    /\ signups[r].pc = "commit"
    /\ signups'[r].pc = "done"

C10_Theorem ==
    /\ \A i, j \in 1..Len(users) : users[i].email = users[j].email => i = j
    /\ \A e \in Emails :
          Cardinality({r \in 1..Len(signups) :
                          signups[r].email = e /\ signups[r].status = 200}) <= 1

\* Two signups with one email both passed the existence check; one committed
\* and the other was refused by the unique index.
C10_Witness ==
    \E r1, r2 \in 1..Len(signups) :
        /\ signups[r1].email = signups[r2].email
        /\ signups[r1].status = 200
        /\ signups[r2].status = 500

(***************************************************************************)
(* Properties of chat (SpecChat, SpecFallback).                            *)
(***************************************************************************)
ChatIds == 1..MaxChats

\* This step is the arrival (and conversation lookup) of chat request r.
ChatArrives(r) == Len(chats) = r - 1 /\ Len(chats') = r

\* This step is the successful return of chat request r.
ChatSucceeds(r) ==
    /\ r \in 1..Len(chats)
    /\ chats[r].pc # "done"
    /\ chats'[r].pc = "done"
    /\ chats'[r].status = 200

UserRow(c) ==
    [user_id |-> Val(int(c.user_id)), conversation_id |-> c.cid,
     role |-> "user", content |-> c.message]

AssistantRow(c) ==
    [user_id |-> Val(int(c.user_id)), conversation_id |-> c.cid,
     role |-> "assistant", content |-> Val(c.ai_response)]

\* The ids of the messages request r inserted.
Inserted(r) == {chats[r].user_message, chats[r].assistant_message} \ {0}

\* C2, as stated: a chat request whose conversation_id is given (any integer)
\* and matches no stored conversation answers 404 and stores no new
\* conversation and no new message.
C2_Claim ==
    [][ \A r \in ChatIds :
          (/\ ChatArrives(r)
           /\ ~IsNone(chats'[r].conversation_id)
           /\ Val(chats'[r].conversation_id) \notin 1..Len(conversations))
          => /\ chats'[r].pc = "done"
             /\ chats'[r].status = 404
             /\ conversations' = conversations
             /\ messages' = messages ]_vars

\* C3, as stated: when a turn returns successfully, the log of its
\* conversation is the log the turn found, followed by exactly two entries:
\* the user message with the request text, then the assistant message with
\* the returned text.
C3_Original ==
    [][ \A r \in ChatIds :
          ChatSucceeds(r) =>
            LET c == chats'[r] IN
            /\ LogOf(messages', c.cid) = c.log0 \cup {c.user_message, c.assistant_message}
            /\ c.user_message < c.assistant_message ]_vars

\* C3, amended: no step changes or removes a stored message; every stored
\* message was inserted by exactly one turn; a turn that returns successfully
\* has inserted exactly two messages into its conversation, the user message
\* with the request text and then the assistant message with the returned
\* text; whatever else the log gained since the turn found it was inserted by
\* other turns, and nothing else when no other turn wrote to the conversation.
C3_Theorem ==
    [][ /\ Len(messages') >= Len(messages)
        /\ SubSeq(messages', 1, Len(messages)) = messages
        /\ \A i \in 1..Len(messages') :
              Cardinality({r \in 1..Len(chats') : i \in Inserted(r)'}) = 1
        /\ \A r \in ChatIds :
              ChatSucceeds(r) =>
                LET c == chats'[r]
                    gained == LogOf(messages', c.cid) \ c.log0
                IN
                /\ c.user_message \in 1..Len(messages')
                /\ c.assistant_message \in 1..Len(messages')
                /\ c.user_message < c.assistant_message
                /\ messages'[c.user_message] = UserRow(c)
                /\ messages'[c.assistant_message] = AssistantRow(c)
                /\ {c.user_message, c.assistant_message} \subseteq gained
                /\ \A i \in gained \ {c.user_message, c.assistant_message} :
                      \E r2 \in 1..Len(chats') : r2 # r /\ i \in Inserted(r2)'
                /\ (\A r2 \in 1..Len(chats') :
                        r2 # r => Inserted(r2)' \cap gained = {})
                   => LogOf(messages', c.cid) = c.log0 \cup {c.user_message, c.assistant_message}
      ]_vars

\* A turn returned successfully in a conversation that already had messages.
C3_Witness ==
    \E r \in 1..Len(chats) :
        /\ chats[r].pc = "done"
        /\ chats[r].status = 200
        /\ chats[r].log0 # {}
        /\ messages[chats[r].user_message].role = "user"
        /\ messages[chats[r].assistant_message].role = "assistant"

\* The completion service was called and its answer is a failure: the call
\* raised, the body is not JSON, has no choices[0].message, has neither a tool
\* call nor a content text, or holds tool arguments that cannot be evaluated.
UpstreamFailed(answer) ==
    /\ answer \in Upstream
    /\ \/ answer.kind # "message"
       \/ /\ answer.tool_calls = << >>
          /\ (~answer.has_content \/ IsNone(answer.content))
       \/ \E i \in 1..Len(answer.tool_calls) : ~answer.tool_calls[i].arguments.valid

\* C6, as stated: with the key set, a failure of the completion call never
\* escapes: the turn's text and tool calls are the fallback's for the same
\* text, the turn answers 200, and its assistant message is stored.
C6_Claim ==
    \A r \in 1..Len(chats) :
        LET c == chats[r] IN
        (apiKey /\ c.pc \in {"store_assistant", "done"} /\ UpstreamFailed(c.answer))
        => /\ c.ai_response = get_fallback_response(c.message, c.user_id).text
           /\ c.tool_calls = get_fallback_response(c.message, c.user_id).tool_calls
           /\ c.pc = "done"
              => /\ c.status = 200
                 /\ c.assistant_message \in 1..Len(messages)
                 /\ messages[c.assistant_message].role = "assistant"

\* The turn's conversation was resolved and its caller is a user id, so that
\* the turn went on to call the resolver.
Resolved(c) == c.cid # 0 /\ ~IsNone(int(c.user_id))

UserRowStored(c) ==
    \E i \in Log(c.cid) \ c.log0 : messages[i] = UserRow(c)

Rows(role) == {i \in 1..Len(messages) : messages[i].role = role}

\* C7: while a turn calls the resolver and stores the assistant message, its
\* user message is already stored; a turn that fails after that leaves the
\* user message stored and stores no assistant message (the assistant
\* messages stored are those of the turns that answered 200).
C7_Theorem ==
    /\ \A r \in 1..Len(chats) :
          LET c == chats[r] IN
          /\ c.pc \in {"agent", "store_assistant"} => UserRowStored(c)
          /\ (c.pc = "done" /\ c.status = 500 /\ Resolved(c))
             => (UserRowStored(c) /\ c.assistant_message = 0)
    /\ Cardinality(Rows("assistant")) =
          Cardinality({r \in 1..Len(chats) : chats[r].status = 200})
    /\ Cardinality(Rows("user")) =
          Cardinality({r \in 1..Len(chats) :
                          /\ Resolved(chats[r])
                          /\ chats[r].pc \in {"agent", "store_assistant", "done"}})

\* A turn failed while storing its assistant message; its user message is stored.
C7_Witness ==
    \E r \in 1..Len(chats) :
        /\ chats[r].pc = "done"
        /\ chats[r].status = 500
        /\ Resolved(chats[r])
        /\ chats[r].answer \in Upstream
        /\ UserRowStored(chats[r])

\* C8, as stated: when the service asks for tool calls, the first one is
\* executed against the task service (an add_task stores a task of the caller
\* with the requested title), the text is the confirmation of that call, and
\* all the requested calls are returned in order; a plain text is returned
\* with no tool call.
C8_Claim ==
    \A r \in 1..Len(chats) :
        LET c == chats[r]
            a == c.answer
        IN
        (apiKey /\ c.pc = "done" /\ c.status = 200 /\ a \in Upstream /\ ~Raises(a))
        => IF a.tool_calls # << >>
           THEN /\ Len(c.tool_calls) = Len(a.tool_calls)
                /\ \A i \in 1..Len(a.tool_calls) :
                      /\ c.tool_calls[i].name = a.tool_calls[i].name
                      /\ c.tool_calls[i].parameters = a.tool_calls[i].arguments.value
                /\ c.ai_response =
                      Some("Executed " \o a.tool_calls[1].name \o " successfully!")
                /\ a.tool_calls[1].name = "add_task"
                   => \E id \in DOMAIN tasks :
                         /\ tasks[id].user_id = Val(int(c.user_id))
                         /\ tasks[id].title = a.tool_calls[1].arguments.value.title
           ELSE /\ c.ai_response = a.content
                /\ c.tool_calls = << >>

\* The keyword groups in their priority order, and the tool of each.
KeywordGroups ==
    << {"add", "create", "remember"}, {"list", "show", "what", "pending"},
       {"complete", "done", "finish"}, {"delete", "remove"} >>

GroupTools == <<"add_task", "list_tasks", "complete_task", "delete_task">>

Matching(text) == {g \in 1..4 : ContainsAny(Lower(text), KeywordGroups[g])}

\* The first group, in priority order, that matches the text; 0 when none does.
FirstGroup ==
    [t \in FallbackTexts |->
        IF Matching(t) = {} THEN 0
        ELSE CHOOSE g \in Matching(t) : \A h \in Matching(t) : g <= h]

\* What the classifier answers for each text of FallbackTexts ("" for help).
ExpectedTool ==
    [t \in FallbackTexts |->
        CASE t \in {"add buy milk", "ADD", "Remember to list", "what did I add",
                    "address"} -> "add_task"
          [] t \in {"show tasks", "What is done", "pending delete",
                    "complete the list"} -> "list_tasks"
          [] t \in {"I'm DONE", "finish and remove", "undone"} -> "complete_task"
          [] t \in {"Delete 1", "remove it"} -> "delete_task"
          [] OTHER -> ""]

Answered(c) == c.pc = "store_assistant" \/ (c.pc = "done" /\ c.status = 200)

\* C9: the fallback's answer is that of the first keyword group, in priority
\* order, with a keyword inside the lowercased text: one tool call named after
\* the group, or the help text and no tool call when no group matches; two
\* turns with the same text get the same answer, whoever asks and whatever is
\* stored.
C9_Theorem ==
    \A r \in 1..Len(chats) :
        LET c == chats[r]
            first == FirstGroup[c.message]
        IN
        (~apiKey /\ Answered(c)) =>
          /\ first = 0 => (c.tool_calls = << >> /\ c.ai_response = Some(HelpText))
          /\ first # 0 => /\ Len(c.tool_calls) = 1
                          /\ c.tool_calls[1].name = GroupTools[first]
                          /\ c.ai_response # Some(HelpText)
          /\ IF ExpectedTool[c.message] = "" THEN c.tool_calls = << >>
             ELSE /\ Len(c.tool_calls) = 1
                  /\ c.tool_calls[1].name = ExpectedTool[c.message]
          /\ \A r2 \in 1..Len(chats) :
                (Answered(chats[r2]) /\ chats[r2].message = c.message)
                => /\ chats[r2].ai_response = c.ai_response
                   /\ chats[r2].tool_calls = c.tool_calls

\* Two users asked with a text in mixed case that matches two groups, the
\* second with messages already stored, and both got the first group's tool.
C9_Witness ==
    \E r1, r2 \in 1..Len(chats) :
        /\ chats[r1].user_id # chats[r2].user_id
        /\ chats[r1].message = "Remember to list"
        /\ chats[r2].message = "Remember to list"
        /\ Answered(chats[r1]) /\ Answered(chats[r2])
        /\ chats[r1].tool_calls[1].name = "add_task"
        /\ chats[r2].tool_calls[1].name = "add_task"
        /\ Len(messages) >= 3

(***************************************************************************)
(* Ownership of messages (SpecChat).                                       *)
(***************************************************************************)
\* The Conversation a stored Message references.  Conversations are never
\* deleted, and a Message is only stored with the id of a stored one.
ConversationOf(m) == conversations[m.conversation_id]

\* C11: in every reachable state every stored Message has the user_id of the
\* Conversation its conversation_id identifies: no caller appends messages to
\* a conversation owned by a different user.
C11_Claim ==
    \A i \in 1..Len(messages) :
        messages[i].user_id = ConversationOf(messages[i]).user_id

(***************************************************************************)
(* The frame of a chat turn (Spec).                                        *)
(***************************************************************************)
\* A step of a chat turn: each of the handler's steps moves its request on.
ChatStep == chats' # chats

====
